---- MODULE Spec2Model ----
(***************************************************************************)
(* A model of p3_openstreetmap.py: the street-name and phone-number        *)
(* normalizers, the audit pass, the streaming reader and the element       *)
(* shaper.                                                                 *)
(*                                                                         *)
(* Strings are sequences of characters.  A character is a one-letter TLA+  *)
(* string, except three characters that are written by name:               *)
(*   "sz"  is U+00DF (sharp s),  "ue" is U+00FC (u umlaut, "UE" its upper  *)
(*   case) and "NUL" is U+0000.                                            *)
(***************************************************************************)
EXTENDS Integers, Sequences, FiniteSets, TLC

VARIABLES
    name,        \* update_name: the argument
    nameMid,     \* the value of name when line 119 is reached
    nameHits,    \* how many times the test of line 117 succeeded in the call
    nameRes,     \* update_name(name): [raised, val], or NoRes before the call
    nameRes2,    \* update_name applied to nameRes.val, or NoRes
    num,         \* update_phone_num: the argument
    numPre,      \* the string that enters the city-code step (line 151)
    numRes,      \* update_phone_num(num), or NoRes before the call
    element,     \* shape_element: the element passed, [tag, attrib, children]
    shaped,      \* what shape_element did with it, or NoShape before the call
    doc,         \* the document: the top-level elements under the root, in order
    tokens,      \* the start and end tags of the document, in order
    parsed,      \* iterparse: how many start and end tags the parser has been fed
    delivered,   \* iterparse: the position of the last tag handed out as an event
    pc,          \* where get_element or audit stands
    tags,        \* get_element: the kinds of element asked for
    attached,    \* the top-level elements that are children of root (positions in doc)
    street_types,\* audit: the anomalous street names
    phone_nums,  \* audit: the anomalous phone numbers
    examined     \* audit: the street names handed to audit_street_type so far

nameVars == <<name, nameMid, nameHits, nameRes, nameRes2>>
phoneVars == <<num, numPre, numRes>>
shapeVars == <<element, shaped>>
parseVars == <<doc, tokens, parsed, delivered, pc>>
readerVars == <<tags, attached>>
auditVars == <<street_types, phone_nums, examined>>
vars == <<nameVars, phoneVars, shapeVars, parseVars, readerVars, auditVars>>

NoRes == [raised |-> FALSE, val |-> <<"?">>, none |-> TRUE]
Ok(s) == [raised |-> FALSE, val |-> s]
Raised == [raised |-> TRUE, val |-> <<>>]

(***************************************************************************)
(* Python string primitives                                                *)
(***************************************************************************)
LowerLetters ==
    <<"a","b","c","d","e","f","g","h","i","j","k","l","m",
      "n","o","p","q","r","s","t","u","v","w","x","y","z","ue">>
UpperLetters ==
    <<"A","B","C","D","E","F","G","H","I","J","K","L","M",
      "N","O","P","Q","R","S","T","U","V","W","X","Y","Z","UE">>
Digits == {"0","1","2","3","4","5","6","7","8","9"}

Range(s) == {s[i] : i \in DOMAIN s}
IndexOf(s, c) == CHOOSE i \in DOMAIN s : s[i] = c

\* unicode.islower() of one character; the sharp s is a lowercase letter
IsLower(c) == c \in Range(LowerLetters) \cup {"sz"}
\* unicode.upper() / unicode.lower() of one character (the sharp s has no
\* one-character upper case and is left as it is)
Upper(c) == IF c \in Range(LowerLetters) THEN UpperLetters[IndexOf(LowerLetters, c)] ELSE c
Lower(c) == IF c \in Range(UpperLetters) THEN LowerLetters[IndexOf(UpperLetters, c)] ELSE c

StartsWith(s, p) == Len(p) <= Len(s) /\ SubSeq(s, 1, Len(p)) = p
EndsWith(s, p) == Len(p) <= Len(s) /\ SubSeq(s, Len(s) - Len(p) + 1, Len(s)) = p
Drop(s, n) == SubSeq(s, n + 1, Len(s))

\* sub in s
Contains(s, sub) == \E i \in 0..(Len(s) - Len(sub)) : SubSeq(s, i + 1, i + Len(sub)) = sub

\* s.replace(old, new), old non-empty: every non-overlapping occurrence, left to right
RECURSIVE Replace(_, _, _)
Replace(s, old, new) ==
    IF Len(s) < Len(old) THEN s
    ELSE IF StartsWith(s, old) THEN new \o Replace(Drop(s, Len(old)), old, new)
    ELSE <<s[1]>> \o Replace(Tail(s), old, new)

\* s.capitalize(), s non-empty: first character upper-cased, the rest lower-cased
Capitalize(s) == <<Upper(s[1])>> \o [i \in 1..(Len(s) - 1) |-> Lower(s[i + 1])]

\* s.lstrip(chars): drops the longest prefix made of characters of the set
RECURSIVE LStrip(_, _)
LStrip(s, chars) == IF s # <<>> /\ s[1] \in chars THEN LStrip(Tail(s), chars) ELSE s

\* re.sub('[^0-9]', '', s)
RECURSIVE DigitsOnly(_)
DigitsOnly(s) ==
    IF s = <<>> THEN <<>>
    ELSE (IF s[1] \in Digits THEN <<s[1]>> ELSE <<>>) \o DigitsOnly(Tail(s))

\* position (1-based) of the first occurrence of sub in s; Contains(s, sub) assumed
FirstOcc(s, sub) ==
    CHOOSE i \in 1..(Len(s) - Len(sub) + 1) :
        /\ SubSeq(s, i, i + Len(sub) - 1) = sub
        /\ \A j \in 1..(i - 1) : SubSeq(s, j, j + Len(sub) - 1) # sub

\* s.split(sep, 1) when sep occurs in s: <<before, after>>
Split1(s, sep) ==
    LET i == FirstOcc(s, sep)
    IN <<SubSeq(s, 1, i - 1), Drop(s, i + Len(sep) - 1)>>

RECURSIVE Concat(_)
Concat(ss) == IF ss = <<>> THEN <<>> ELSE ss[1] \o Concat(Tail(ss))

(***************************************************************************)
(* The audit's checks                                                      *)
(***************************************************************************)
\* lines 32-33.  In u"Br\00fccke" the escape \00 is an octal escape: the
\* last two tokens hold U+0000 followed by "fccke", not the u umlaut.
expected ==
    << <<"S","t","r","a","sz","e">>, <<"s","t","r","a","sz","e">>,
       <<"A","l","l","e","e">>, <<"a","l","l","e","e">>,
       <<"W","e","g">>, <<"w","e","g">>,
       <<"P","l","a","t","z">>, <<"p","l","a","t","z">>,
       <<"G","a","s","s","e">>, <<"g","a","s","s","e">>,
       <<"P","r","o","m","e","n","a","d","e">>, <<"p","r","o","m","e","n","a","d","e">>,
       <<"U","f","e","r">>, <<"u","f","e","r">>,
       <<"B","r","NUL","f","c","c","k","e">>, <<"b","r","NUL","f","c","c","k","e">> >>

\* lines 39-43: counter == 0 after the loop
NoExpectedType(street_name) ==
    Cardinality({i \in DOMAIN expected : Contains(street_name, expected[i])}) = 0

\* lines 35-44
audit_street_type(types, street_name) ==
    IF NoExpectedType(street_name) THEN types \cup {street_name} ELSE types

\* lines 46-51
audit_phone_num(nums, n) ==
    IF ~StartsWith(n, <<"+","4","9"," ","3","0"," ">>) THEN nums \cup {n} ELSE nums

(***************************************************************************)
(* update_name                                                             *)
(***************************************************************************)
Strasze == <<"S","t","r","a","sz","e">>
strasze == <<"s","t","r","a","sz","e">>

\* the mapping with "Str." spelled out as "Strasse", itself a key, in place of
\* the canonical form
mappingStrasse ==
    << <<(<<"S","t","r",".">>), <<"S","t","r","a","s","s","e">> >>,
       <<(<<"S","t","r","a","s","s","e">>), Strasze>>,
       <<(<<"S","t","r">>), Strasze>>,
       <<(<<"s","t","r">>), strasze>>,
       <<(<<"s","t","r",".">>), strasze>>,
       <<(<<"s","t","r","a","s","s","e">>), strasze>> >>

\* the mapping, as the list of its (key, value) items in source order
mapping ==
    << <<(<<"S","t","r",".">>), Strasze>>,
       <<(<<"S","t","r","a","s","s","e">>), Strasze>>,
       <<(<<"S","t","r">>), Strasze>>,
       <<(<<"s","t","r">>), strasze>>,
       <<(<<"s","t","r",".">>), strasze>>,
       <<(<<"s","t","r","a","s","s","e">>), strasze>> >>

\* mapping.keys() may come in any order: the orders of the items
KeyOrders ==
    {p \in [DOMAIN mapping -> DOMAIN mapping] : \A i, j \in DOMAIN mapping : p[i] = p[j] => i = j}

\* the loop with "key in name" as its test, in place of name.endswith(key)
RECURSIVE ApplyMappingAnywhere(_, _, _)
ApplyMappingAnywhere(s, ord, i) ==
    IF i > Len(ord) THEN s
    ELSE LET key == mapping[ord[i]][1]
             val == mapping[ord[i]][2]
         IN ApplyMappingAnywhere(IF Contains(s, key) THEN Replace(s, key, val) ELSE s, ord, i + 1)

\* lines 116-118: the loop over the keys, in the order ord, from its i-th key on
RECURSIVE ApplyMapping(_, _, _)
ApplyMapping(s, ord, i) ==
    IF i > Len(ord) THEN s
    ELSE LET key == mapping[ord[i]][1]
             val == mapping[ord[i]][2]
         IN ApplyMapping(IF EndsWith(s, key) THEN Replace(s, key, val) ELSE s, ord, i + 1)

\* line 117: how many keys pass name.endswith(key) during the loop, in the
\* order ord, from its i-th key on
RECURSIVE SuffixHits(_, _, _)
SuffixHits(s, ord, i) ==
    IF i > Len(ord) THEN 0
    ELSE LET key == mapping[ord[i]][1]
             val == mapping[ord[i]][2]
         IN IF EndsWith(s, key)
            THEN 1 + SuffixHits(Replace(s, key, val), ord, i + 1)
            ELSE SuffixHits(s, ord, i + 1)

\* the keys in the order the source lists them
SourceOrder == [i \in DOMAIN mapping |-> i]

\* lines 119-120; name[0] of an empty string raises IndexError
CapitalizeFirst(s) ==
    IF s = <<>> THEN Raised
    ELSE IF IsLower(s[1]) THEN Ok(Capitalize(s)) ELSE Ok(s)

update_name(s, ord) == CapitalizeFirst(ApplyMapping(s, ord, 1))

(***************************************************************************)
(* update_phone_num                                                        *)
(***************************************************************************)
Plus49 == <<"+","4","9"," ">>

\* lines 142-143
PhoneBranch2(d) == IF StartsWith(d, <<"0","0","4","9">>) THEN <<"+">> \o LStrip(d, {"0"}) ELSE d

\* lines 144-150
PhoneBranch34(d) ==
    IF ~StartsWith(d, <<"4","9">>)
    THEN IF StartsWith(d, <<"0">>) THEN Plus49 \o LStrip(d, {"0"}) ELSE Plus49 \o d
    ELSE Plus49 \o LStrip(d, {"4","9"})

\* the value of num when line 151 is reached
PhonePrefixed(s) == PhoneBranch34(PhoneBranch2(DigitsOnly(s)))

\* lines 151-160
PhoneCityCode(s) ==
    IF Contains(s, <<"3","0">>)
    THEN LET num_spl == Split1(s, <<"3","0">>)
         IN IF Len(num_spl[1]) <= 5
            THEN <<"+","4","9"," ","3","0"," ">> \o num_spl[2]
            ELSE s
    ELSE s

update_phone_num(s) == PhoneCityCode(PhonePrefixed(s))

(***************************************************************************)
(* shape_element                                                           *)
(*                                                                         *)
(* An element is [tag, attrib, children]: attrib maps attribute names to   *)
(* values (opaque, written as TLA+ strings), children is the list of child *)
(* elements in document order, a child being [tag |-> "tag", k, v] with k  *)
(* and v character sequences, or [tag |-> "nd", ref].                      *)
(***************************************************************************)
NODE_FIELDS == <<"id", "lat", "lon", "user", "uid", "version", "changeset", "timestamp">>
WAY_FIELDS == <<"id", "user", "uid", "version", "changeset", "timestamp">>

\* the characters of PROBLEMCHARS, line 179
ProblemCharSet ==
    {"=", "+", "/", "&", "<", ">", ";", "'", "\"", "?", "%", "#", "$", "@", ",", ".", " ",
     "\t", "\r", "\n"}

\* PROBLEMCHARS.search(k) finds something
PROBLEMCHARS(k) == \E i \in DOMAIN k : k[i] \in ProblemCharSet

\* the class ([a-z]|_) of LOWER_COLON: ASCII lowercase letters and the underscore
LowerOrUnderscore == (Range(LowerLetters) \ {"ue"}) \cup {"_"}

\* LOWER_COLON.search(k) finds something, line 178: the pattern is anchored at
\* the start of the key only
LOWER_COLON(k) ==
    \E i \in 1..(Len(k) - 2) :
        /\ \A j \in 1..i : k[j] \in LowerOrUnderscore
        /\ k[i + 1] = ":"
        /\ k[i + 2] \in LowerOrUnderscore

\* element.get(attr): None when the attribute is missing
Get(e, attr) == IF attr \in DOMAIN e.attrib THEN e.attrib[attr] ELSE "None"

\* element.iter(t), for an element whose children are leaves
Iter(e, t) == SelectSeq(e.children, LAMBDA c : c.tag = t)

\* k.split(":") : every colon splits, and sp[1] is the part between the
\* first two colons
SplitEveryColon(k) ==
    LET sp == Split1(k, <<":">>)
    IN IF Contains(sp[2], <<":">>) THEN <<sp[1], Split1(sp[2], <<":">>)[1]>> ELSE sp

\* k.split(":", 1), line 212
SplitColon(k) == Split1(k, <<":">>)

StreetKey == <<"a","d","d","r",":","s","t","r","e","e","t">>
PhoneKey == <<"p","h","o","n","e">>
Regular == <<"r","e","g","u","l","a","r">>

\* lines 199-207: the record d and whether building it raised; un[v] is what
\* update_name(v, mapping) does in this run
TagValue(id, t, un) ==
    IF t.k = StreetKey
    THEN IF un[t.v].raised THEN Raised ELSE Ok([id |-> id, value |-> un[t.v].val])
    ELSE IF t.k = PhoneKey THEN Ok([id |-> id, value |-> update_phone_num(t.v)])
    ELSE Ok([id |-> id, value |-> t.v])

\* lines 208-217: d with its type and key, when the key has no problem character
TagTypeKey(d, k) ==
    IF ~PROBLEMCHARS(k)
    THEN IF LOWER_COLON(k)
         THEN LET sp == SplitColon(k)
              IN [id |-> d.id, value |-> d.value, type |-> sp[1], key |-> sp[2]]
         ELSE [id |-> d.id, value |-> d.value, type |-> Regular, key |-> k]
    ELSE d

\* lines 198-218: the loop over the tag children ts; [raised, val] with val the
\* list tags
RECURSIVE ShapeTags(_, _, _)
ShapeTags(id, ts, un) ==
    IF ts = <<>> THEN Ok(<<>>)
    ELSE LET d == TagValue(id, ts[1], un)
         IN IF d.raised THEN Raised
            ELSE LET rest == ShapeTags(id, Tail(ts), un)
                 IN IF rest.raised THEN Raised
                    ELSE Ok(<<TagTypeKey(d.val, ts[1].k)>> \o rest.val)

\* lines 227-233
WayNodes(e) ==
    LET nds == Iter(e, "nd")
    IN [pos \in 1..Len(nds) |->
           [id |-> Get(e, "id"), node_id |-> nds[pos].ref, position |-> pos - 1]]

\* lines 189-234: [kind |-> "raised"] when a call inside raised, [kind |-> "None"]
\* when the function falls off its end
shape_element(e, un) ==
    LET tgs == ShapeTags(Get(e, "id"), Iter(e, "tag"), un)
    IN IF tgs.raised THEN [kind |-> "raised"]
       ELSE IF e.tag = "node"
       THEN [kind |-> "node",
             node |-> [attr \in Range(NODE_FIELDS) |-> Get(e, attr)],
             node_tags |-> tgs.val]
       ELSE IF e.tag = "way"
       THEN [kind |-> "way",
             way |-> [attr \in Range(WAY_FIELDS) |-> Get(e, attr)],
             way_nodes |-> WayNodes(e),
             way_tags |-> tgs.val]
       ELSE [kind |-> "None"]

NoShape == [kind |-> "not called"]

(***************************************************************************)
(* ET.iterparse                                                            *)
(*                                                                         *)
(* The parser sees the document as its start and end tags in order.  A tag *)
(* is [ev, el, ch]: el the position of a top-level element in doc (0 for   *)
(* the root) and ch the position of one of its children (0 for the element *)
(* itself).  iterparse reads the file in chunks, feeds a whole chunk to    *)
(* the parser and then hands out the events of that chunk one by one: an   *)
(* element is built, and appended to its parent, when the parser is fed    *)
(* its start tag, which may be long before its event is handed out.        *)
(***************************************************************************)
ElemTokens(i, e) ==
    <<[ev |-> "start", el |-> i, ch |-> 0]>>
    \o Concat([j \in DOMAIN e.children |->
                 <<[ev |-> "start", el |-> i, ch |-> j], [ev |-> "end", el |-> i, ch |-> j]>>])
    \o <<[ev |-> "end", el |-> i, ch |-> 0]>>

Tokens(d) ==
    <<[ev |-> "start", el |-> 0, ch |-> 0]>>
    \o Concat([i \in DOMAIN d |-> ElemTokens(i, d[i])])
    \o <<[ev |-> "end", el |-> 0, ch |-> 0]>>

\* elem.tag of the element a tag belongs to
TokTag(d, t) ==
    IF t.el = 0 THEN "osm"
    ELSE IF t.ch = 0 THEN d[t.el].tag
    ELSE d[t.el].children[t.ch].tag

\* the position of a tag in the document
TokenIndex(t) == CHOOSE n \in DOMAIN tokens : tokens[n] = t

\* the events of the kinds evs that were parsed and not yet handed out
Pending(evs) == {n \in (delivered + 1)..parsed : tokens[n].ev \in evs}
NextEvent(evs) == CHOOSE n \in Pending(evs) : \A m \in Pending(evs) : n <= m

\* top-level elements whose start tag is among the tags from..to
StartedIn(from, to) ==
    {i \in DOMAIN doc : TokenIndex([ev |-> "start", el |-> i, ch |-> 0]) \in from..to}

\* the file is read until a chunk holds an event of the kinds evs, or to its
\* end; where the chunks end is not determined by the document
Feed(evs) ==
    /\ Pending(evs) = {}
    /\ parsed < Len(tokens)
    /\ \E p \in (parsed + 1)..Len(tokens) :
          /\ parsed' = p
          /\ attached' = attached \cup StartedIn(parsed + 1, p)

(***************************************************************************)
(* get_element                                                             *)
(***************************************************************************)
BothEvents == {"start", "end"}

\* the top-level elements that were consumed (their end event was handed out)
\* and are still children of root
Retained ==
    {i \in attached : TokenIndex([ev |-> "end", el |-> i, ch |-> 0]) <= delivered}

(***************************************************************************)
(* audit                                                                   *)
(***************************************************************************)
StartEvents == {"start"}

\* elem.iter("tag") at the start event of element i: its tag children that
\* the parser has built by now
VisibleTags(i) ==
    LET idx == {j \in DOMAIN doc[i].children :
                    /\ doc[i].children[j].tag = "tag"
                    /\ TokenIndex([ev |-> "start", el |-> i, ch |-> j]) <= parsed}
    IN SelectSeq([j \in DOMAIN doc[i].children |->
                     IF j \in idx THEN doc[i].children[j] ELSE [tag |-> "unbuilt"]],
                 LAMBDA c : c.tag = "tag")

is_street_name(t) == t.k = StreetKey
is_phone_num(t) == t.k = PhoneKey

\* lines 74-78: the sets after the loop over the tags ts; acc is
\* [street_types, phone_nums, examined]
RECURSIVE AuditTags(_, _)
AuditTags(ts, acc) ==
    IF ts = <<>> THEN acc
    ELSE AuditTags(Tail(ts),
            IF is_street_name(ts[1])
            THEN [acc EXCEPT !.street_types = audit_street_type(@, ts[1].v),
                             !.examined = @ \cup {ts[1].v}]
            ELSE IF is_phone_num(ts[1])
            THEN [acc EXCEPT !.phone_nums = audit_phone_num(@, ts[1].v)]
            ELSE acc)

(***************************************************************************)
(* Inputs                                                                  *)
(***************************************************************************)
MaxNameFrags == 2
MaxPhoneFrags == 4

NameFrags ==
    { <<"S","t","r">>, <<"s","t","r">>, <<".">>, <<"a","s","s","e">>,
      Strasze, <<"a","m"," ","O">> }

PhoneFrags ==
    { <<"0","0">>, <<"0">>, <<"4","9">>, <<"3","0">>, <<"1">>, <<"+">>, <<" ">> }

SeqsUpTo(S, n) == UNION {[1..k -> S] : k \in 0..n}

NameInputs == {Concat(fs) : fs \in SeqsUpTo(NameFrags, MaxNameFrags)}
PhoneInputs == {Concat(fs) : fs \in SeqsUpTo(PhoneFrags, MaxPhoneFrags)}

MaxChildren == 2

\* values of addr:street tags, of phone tags and of the other tags
StreetValues == { <<>>, <<"S","t","r",".">>, <<"a","m"," ","O">> }
PhoneValues == { <<"0","3","0"," ","1">> }
OtherValues == { <<"x">> }

\* raw keys: with one colon, with two, with a character outside the class
\* after the matched part, with an uppercase first segment, without a colon,
\* with nothing after the colon, with a problem character
OtherKeys ==
    { <<"a",":","b">>, <<"a","_",":","b",":","c">>, <<"a",":","b","X">>, <<"A",":","b">>,
      <<"a","b">>, <<"a",":">>, <<"a"," ","b",":","c">> }

TagChildren ==
    {[tag |-> "tag", k |-> StreetKey, v |-> v] : v \in StreetValues}
    \cup {[tag |-> "tag", k |-> PhoneKey, v |-> v] : v \in PhoneValues}
    \cup {[tag |-> "tag", k |-> k, v |-> v] : k \in OtherKeys, v \in OtherValues}
NdChildren == {[tag |-> "nd", ref |-> r] : r \in {"1", "2"}}

Attribs ==
    { [attr \in {"id"} |-> "10"],
      [attr \in Range(NODE_FIELDS) |-> IF attr = "id" THEN "20" ELSE "x"] }

Elements ==
    {[tag |-> t, attrib |-> a, children |-> cs] :
        t \in {"node", "way", "relation"}, a \in Attribs,
        cs \in SeqsUpTo(TagChildren \cup NdChildren, MaxChildren)}

\* what update_name(v, mapping) can do, for each street value: one outcome per
\* order of mapping.keys()
UpdateNameOutcomes == [v \in StreetValues |-> {update_name(v, ord) : ord \in KeyOrders}]

\* the behaviours of update_name in a run: the order of the keys is fixed in a
\* run, so equal arguments give equal results
UpdateNameChoices ==
    {un \in [StreetValues -> UNION {UpdateNameOutcomes[v] : v \in StreetValues}] :
        \A v \in StreetValues : un[v] \in UpdateNameOutcomes[v]}

(***************************************************************************)
(* Inputs of the reader and of the audit                                   *)
(***************************************************************************)
MaxDocLen == 3
MaxAuditDocLen == 2

Kinds == {"node", "way", "relation"}

\* the reader does not look into the elements: they have no child or one
ReaderElements ==
    {[tag |-> t, children |-> cs] : t \in Kinds, cs \in {<<>>, <<[tag |-> "nd", ref |-> "1"]>>}}
ReaderDocs == SeqsUpTo(ReaderElements, MaxDocLen)
TagFilters == (SUBSET Kinds) \ {{}}

Bruecke == <<"b","r","ue","c","k","e">>
AuditStreetValues == { <<"W","e","g">>, <<"X">> \o Bruecke, <<"a","m"," ","O">> }
AuditPhoneValues == { <<"+","4","9"," ","3","0"," ","1">>, <<"0","3","0"," ","1">> }

AuditTagChildren ==
    {[tag |-> "tag", k |-> StreetKey, v |-> v] : v \in AuditStreetValues}
    \cup {[tag |-> "tag", k |-> PhoneKey, v |-> v] : v \in AuditPhoneValues}
    \cup {[tag |-> "tag", k |-> <<"a",":","b">>, v |-> <<"x">>]}
AuditElements ==
    {[tag |-> t, children |-> cs] : t \in Kinds, cs \in SeqsUpTo(AuditTagChildren, 1)}
AuditDocs == SeqsUpTo(AuditElements, MaxAuditDocLen)

(***************************************************************************)
(* The state machines: one specification for each part of the program      *)
(***************************************************************************)
NameIdle == /\ name = <<>> /\ nameMid = <<>> /\ nameHits = 0 /\ nameRes = NoRes /\ nameRes2 = NoRes
PhoneIdle == /\ num = <<>> /\ numPre = <<>> /\ numRes = NoRes
ShapeIdle == /\ element = [tag |-> "none"] /\ shaped = NoShape
ParseIdle == /\ doc = <<>> /\ tokens = <<>> /\ parsed = 0 /\ delivered = 0 /\ pc = "idle"
ReaderIdle == /\ tags = {} /\ attached = {}
AuditIdle == /\ street_types = {} /\ phone_nums = {} /\ examined = {}

\* ---- update_name ----
InitName ==
    /\ name \in NameInputs
    /\ nameMid = <<>>
    /\ nameHits = 0
    /\ nameRes = NoRes
    /\ nameRes2 = NoRes
    /\ PhoneIdle /\ ShapeIdle /\ ParseIdle /\ ReaderIdle /\ AuditIdle

\* street_list_upd.add(update_name(street, mapping)), line 125
UpdateName ==
    /\ nameRes = NoRes
    /\ \E ord \in KeyOrders :
          /\ nameMid' = ApplyMapping(name, ord, 1)
          /\ nameHits' = SuffixHits(name, ord, 1)
          /\ nameRes' = update_name(name, ord)
    /\ UNCHANGED <<name, nameRes2, phoneVars, shapeVars, parseVars, readerVars, auditVars>>

\* the normalizer applied to its own output
UpdateNameAgain ==
    /\ nameRes # NoRes
    /\ ~nameRes.raised
    /\ nameRes2 = NoRes
    /\ \E ord \in KeyOrders : nameRes2' = update_name(nameRes.val, ord)
    /\ UNCHANGED <<name, nameMid, nameHits, nameRes, phoneVars, shapeVars, parseVars, readerVars, auditVars>>

NextName == UpdateName \/ UpdateNameAgain
SpecName == InitName /\ [][NextName]_vars

\* ---- update_phone_num ----
InitPhone ==
    /\ num \in PhoneInputs
    /\ numPre = <<>>
    /\ numRes = NoRes
    /\ NameIdle /\ ShapeIdle /\ ParseIdle /\ ReaderIdle /\ AuditIdle

\* print update_phone_num(num), line 163
UpdatePhoneNum ==
    /\ numRes = NoRes
    /\ numPre' = PhonePrefixed(num)
    /\ numRes' = Ok(update_phone_num(num))
    /\ UNCHANGED <<num, nameVars, shapeVars, parseVars, readerVars, auditVars>>

NextPhone == UpdatePhoneNum
SpecPhone == InitPhone /\ [][NextPhone]_vars

\* ---- shape_element ----
InitShape ==
    /\ element \in Elements
    /\ shaped = NoShape
    /\ NameIdle /\ PhoneIdle /\ ParseIdle /\ ReaderIdle /\ AuditIdle

\* el = shape_element(element), line 278
ShapeElement ==
    /\ shaped = NoShape
    /\ \E un \in UpdateNameChoices : shaped' = shape_element(element, un)
    /\ UNCHANGED <<element, nameVars, phoneVars, parseVars, readerVars, auditVars>>

NextShape == ShapeElement
SpecShape == InitShape /\ [][NextShape]_vars

\* ---- get_element, driven by the loop of process_map ----
InitReader ==
    /\ doc \in ReaderDocs
    /\ tokens = Tokens(doc)
    /\ tags \in TagFilters
    /\ parsed = 0
    /\ delivered = 0
    /\ attached = {}
    /\ pc = "root"
    /\ NameIdle /\ PhoneIdle /\ ShapeIdle /\ AuditIdle

\* iterparse reads on, inside next(context) or the for statement
ReaderFeed ==
    /\ pc \in {"root", "loop"}
    /\ Feed(BothEvents)
    /\ UNCHANGED <<doc, tokens, delivered, pc, tags, nameVars, phoneVars, shapeVars, auditVars>>

\* _, root = next(context), line 244
GetRoot ==
    /\ pc = "root"
    /\ Pending(BothEvents) # {}
    /\ delivered' = NextEvent(BothEvents)
    /\ pc' = "loop"
    /\ UNCHANGED <<doc, tokens, parsed, tags, attached, nameVars, phoneVars, shapeVars, auditVars>>

\* one turn of the for loop, lines 245-247: the element is yielded, or passed over
GetEvent ==
    /\ pc = "loop"
    /\ Pending(BothEvents) # {}
    /\ LET n == NextEvent(BothEvents)
           t == tokens[n]
       IN /\ delivered' = n
          /\ pc' = IF t.ev = "end" /\ TokTag(doc, t) \in tags THEN "yielded" ELSE "loop"
    /\ UNCHANGED <<doc, tokens, parsed, tags, attached, nameVars, phoneVars, shapeVars, auditVars>>

\* the consumer asks for the next element: root.clear(), line 248
ClearRoot ==
    /\ pc = "yielded"
    /\ attached' = {}
    /\ pc' = "loop"
    /\ UNCHANGED <<doc, tokens, parsed, delivered, tags, nameVars, phoneVars, shapeVars, auditVars>>

\* the events are exhausted: the generator returns
ReaderStop ==
    /\ pc = "loop"
    /\ Pending(BothEvents) = {}
    /\ parsed = Len(tokens)
    /\ pc' = "done"
    /\ UNCHANGED <<doc, tokens, parsed, delivered, tags, attached, nameVars, phoneVars, shapeVars, auditVars>>

NextReader == ReaderFeed \/ GetRoot \/ GetEvent \/ ClearRoot \/ ReaderStop
SpecReader == InitReader /\ [][NextReader]_vars

\* ---- audit ----
InitAudit ==
    /\ doc \in AuditDocs
    /\ tokens = Tokens(doc)
    /\ parsed = 0
    /\ delivered = 0
    /\ pc = "audit"
    /\ street_types = {}
    /\ phone_nums = {}
    /\ examined = {}
    /\ NameIdle /\ PhoneIdle /\ ShapeIdle /\ ReaderIdle

\* iterparse reads on, inside the for statement of line 72
AuditFeed ==
    /\ pc = "audit"
    /\ Feed(StartEvents)
    /\ UNCHANGED <<doc, tokens, delivered, pc, tags, nameVars, phoneVars, shapeVars, auditVars>>

\* one turn of the for loop, lines 72-78
AuditEvent ==
    /\ pc = "audit"
    /\ Pending(StartEvents) # {}
    /\ LET n == NextEvent(StartEvents)
           t == tokens[n]
           acc == [street_types |-> street_types, phone_nums |-> phone_nums, examined |-> examined]
           res == IF TokTag(doc, t) = "node" \/ TokTag(doc, t) = "way"
                  THEN AuditTags(VisibleTags(t.el), acc)
                  ELSE acc
       IN /\ delivered' = n
          /\ street_types' = res.street_types
          /\ phone_nums' = res.phone_nums
          /\ examined' = res.examined
    /\ UNCHANGED <<doc, tokens, parsed, pc, readerVars, nameVars, phoneVars, shapeVars>>

\* the events are exhausted: lines 79-80
AuditReturn ==
    /\ pc = "audit"
    /\ Pending(StartEvents) = {}
    /\ parsed = Len(tokens)
    /\ pc' = "returned"
    /\ UNCHANGED <<doc, tokens, parsed, delivered, readerVars, auditVars, nameVars, phoneVars, shapeVars>>

NextAudit == AuditFeed \/ AuditEvent \/ AuditReturn
SpecAudit == InitAudit /\ [][NextAudit]_vars

(***************************************************************************)
(* Properties of update_phone_num                                          *)
(***************************************************************************)
\* C3: the rewrite branches exclude one another: when the digits of the
\* input start with "0049", the string that enters the city-code step is "+"
\* followed by the digits without their leading zeros, and no "+49 " prefix
\* is put on top of it.
C3_BranchesExclusive ==
    (numRes # NoRes /\ StartsWith(DigitsOnly(num), <<"0","0","4","9">>))
        => numPre = <<"+">> \o LStrip(DigitsOnly(num), {"0"})

\* the Berlin-area patterns of C4: what may precede the city code
BerlinPrefixes ==
    { <<>>, <<"0">>, <<"4","9">>, <<"4","9","0">>, <<"0","0","4","9">> }

\* C4: when the digits of the input are p + "30" + s with p a Berlin-area
\* prefix, the output starts with "+49 30 ".
C4_BerlinFormat ==
    (numRes # NoRes /\ \E p \in BerlinPrefixes : StartsWith(DigitsOnly(num), p \o <<"3","0">>))
        => StartsWith(numRes.val, <<"+","4","9"," ","3","0"," ">>)

(***************************************************************************)
(* Properties of update_name                                               *)
(***************************************************************************)
\* C5: when the string after the mapping substitution starts with a lowercase
\* character, the result is that string with only its first character changed,
\* to its upper case.
C5_OnlyFirstCharChanged ==
    (nameRes # NoRes /\ ~nameRes.raised /\ IsLower(nameMid[1]))
        => nameRes.val = <<Upper(nameMid[1])>> \o Tail(nameMid)

\* C6: update_name has no error outcome: no call raises.
C6_NeverRaises == ~nameRes.raised

\* C9: update_name is idempotent on canonical inputs: for x that holds an
\* expected street-type token and does not start with a lowercase character,
\* update_name(update_name(x)) = update_name(x).
C9_Idempotent ==
    (nameRes2 # NoRes /\ ~NoExpectedType(name) /\ ~IsLower(name[1]))
        => nameRes2 = nameRes

\* a canonical input whose abbreviation was rewritten, normalized twice
C9_Witness ==
    /\ nameRes2 # NoRes
    /\ ~NoExpectedType(name)
    /\ ~IsLower(name[1])
    /\ nameRes.val # name
    /\ nameRes2 = nameRes

\* C11: for the six-entry mapping, update_name of a non-empty string gives the
\* same result for every order of the mapping's entries, and at most one
\* entry's suffix test succeeds during a call.
C11_OrderIndependent ==
    (nameRes # NoRes /\ name # <<>>)
        => /\ nameRes = update_name(name, SourceOrder)
           /\ nameHits <= 1

\* a call in which one entry's suffix test succeeded and the name was rewritten
C11_Witness ==
    /\ nameRes # NoRes
    /\ name # <<>>
    /\ nameHits = 1
    /\ nameMid # name
    /\ nameRes = update_name(name, SourceOrder)

(***************************************************************************)
(* Properties of shape_element                                             *)
(***************************************************************************)
\* the tag records shape_element emitted: none when it returned nothing
EmittedTags ==
    IF shaped.kind = "node" THEN shaped.node_tags
    ELSE IF shaped.kind = "way" THEN shaped.way_tags
    ELSE <<>>

EmittedWayNodes == IF shaped.kind = "way" THEN shaped.way_nodes ELSE <<>>

\* C1: for a node or way passed to shape_element, as many tag records are
\* emitted as the element has tag children, and a way with N nd children gets
\* exactly N way_nodes records, the i-th with the way's id, the ref of the
\* i-th nd child and position i (counted from 0).
C1_ShapeComplete ==
    (shaped # NoShape /\ element.tag \in {"node", "way"})
        => /\ Len(EmittedTags) = Cardinality({i \in DOMAIN element.children : element.children[i].tag = "tag"})
           /\ element.tag = "way" =>
                LET nds == SelectSeq(element.children, LAMBDA c : c.tag = "nd")
                IN /\ Len(EmittedWayNodes) = Len(nds)
                   /\ \A i \in 0..(Len(nds) - 1) :
                        /\ EmittedWayNodes[i + 1].id = element.attrib["id"]
                        /\ EmittedWayNodes[i + 1].node_id = nds[i + 1].ref
                        /\ EmittedWayNodes[i + 1].position = i

\* the pattern of C2 at the start of a key: lowercase letters or underscores,
\* one or more, a colon, and a lowercase letter or underscore
ColonSegments(k) ==
    \E n \in 1..Len(k) :
        /\ n + 2 <= Len(k)
        /\ k[n + 1] = ":"
        /\ \A j \in (1..n) \cup {n + 2} : k[j] \in (Range(LowerLetters) \ {"ue"}) \cup {"_"}

\* the characters of k before its first colon
BeforeColon(k) == SubSeq(k, 1, (CHOOSE n \in DOMAIN k : k[n] = ":" /\ \A j \in 1..(n - 1) : k[j] # ":") - 1)

\* C2: for every emitted tag record whose raw key has no problem character: if
\* the raw key matches the colon pattern, type is the text before the colon,
\* key the text after it and type + ":" + key is the raw key, also when the key
\* has more colons or other characters after the matched part; otherwise type
\* is "regular" and key is the raw key.
C2_KeySplit ==
    LET ts == SelectSeq(element.children, LAMBDA c : c.tag = "tag")
    IN \A i \in DOMAIN EmittedTags :
        LET d == EmittedTags[i]
            k == ts[i].k
        IN (\A j \in DOMAIN k : k[j] \notin ProblemCharSet)
            => /\ DOMAIN d = {"id", "value", "type", "key"}
               /\ IF ColonSegments(k)
                  THEN /\ d.type = BeforeColon(k)
                       /\ d.key = SubSeq(k, Len(d.type) + 2, Len(k))
                       /\ d.type \o <<":">> \o d.key = k
                  ELSE d.type = Regular /\ d.key = k

\* a key with two colons was split at the first one, beside a key that was not split
C2_Witness ==
    /\ shaped.kind = "way"
    /\ Len(EmittedTags) = 2
    /\ \E i \in DOMAIN EmittedTags :
          /\ EmittedTags[i].type = <<"a","_">>
          /\ EmittedTags[i].key = <<"b",":","c">>
    /\ \E i \in DOMAIN EmittedTags :
          /\ EmittedTags[i].type = Regular
          /\ EmittedTags[i].key = <<"a",":">>

(***************************************************************************)
(* Properties of get_element                                               *)
(***************************************************************************)
\* C7: during a pass of get_element, for any document and any kinds asked
\* for, at most one consumed top-level element is still held under the root.
C7_NothingRetained == Cardinality(Retained) <= 1

(***************************************************************************)
(* Properties of audit                                                     *)
(***************************************************************************)
\* the sixteen street-type tokens of C8
StreetTypeTokens ==
    { <<"S","t","r","a","sz","e">>, <<"s","t","r","a","sz","e">>,
      <<"A","l","l","e","e">>, <<"a","l","l","e","e">>,
      <<"W","e","g">>, <<"w","e","g">>,
      <<"P","l","a","t","z">>, <<"p","l","a","t","z">>,
      <<"G","a","s","s","e">>, <<"g","a","s","s","e">>,
      <<"P","r","o","m","e","n","a","d","e">>, <<"p","r","o","m","e","n","a","d","e">>,
      <<"U","f","e","r">>, <<"u","f","e","r">>,
      <<"B","r","ue","c","k","e">>, <<"b","r","ue","c","k","e">> }

\* C8: a street name the audit examined is in the anomalous street names set
\* if and only if it holds none of the sixteen tokens; a name holding
\* "Bruecke" (with the u umlaut) is never added.
C8_AnomalousStreets ==
    \A v \in examined :
        v \in street_types <=> ~\E t \in StreetTypeTokens : Contains(v, t)

\* the values of the phone tags of the nodes and ways of the document that do
\* not start with "+49 30 "
BadPhoneValues ==
    LET owners == {i \in DOMAIN doc : doc[i].tag \in {"node", "way"}}
        phones(e) == {c \in {e.children[j] : j \in DOMAIN e.children} : c.k = PhoneKey}
        values == UNION {{c.v : c \in phones(doc[i])} : i \in owners}
    IN {v \in values : Len(v) < 7 \/ SubSeq(v, 1, 7) # <<"+","4","9"," ","3","0"," ">>}

\* C10: when audit returns, the anomalous phone numbers set is exactly the
\* set of the values of the phone tags of nodes and ways that do not start
\* with "+49 30 ".
C10_AllPhonesAudited == pc = "returned" => phone_nums = BadPhoneValues
====
